---- MODULE Spec2Model ----
(***************************************************************************)
(* Model of the Tauri backend of ReadAny (packages/app/src-tauri/src).     *)
(*                                                                         *)
(* The backend consists of                                                 *)
(*   - run() (lib.rs), which creates the SQLite schema through             *)
(*     db::init_database_sync / db::schema::initialize and registers the   *)
(*     SQL plugin and the command handlers;                                *)
(*   - the command handlers of commands/rag.rs and commands/book.rs, none  *)
(*     of which reads or writes any state;                                 *)
(*   - the SQLite database itself, which is written by the frontend        *)
(*     through the SQL plugin (lib.rs:11, schema.rs:6) under the           *)
(*     constraints the schema of schema.rs declares.                       *)
(*                                                                         *)
(* Strings that only ever get compared (book ids, chunk ids) are modelled  *)
(* as small naturals.  Columns and struct fields that no property reads    *)
(* (titles, content, cfi, ...) are left out of the rows.                   *)
(***************************************************************************)
EXTENDS Naturals, Sequences, FiniteSets

VARIABLES
    books,   \* the ids of the rows of table books
    chunks,  \* table chunks: chunk id -> row, or NoRow
    last     \* the most recent interaction: a command with its response,
             \* an SQL statement of the frontend, or a start of the process

vars == <<books, chunks, last>>

(***************************************************************************)
(* Bounds of the model.                                                    *)
(***************************************************************************)
NumBooks == 2
NumChunks == 2
MaxChapter == 0
MaxTopK == 1

BookIds == 1..NumBooks
ChunkIds == 1..NumChunks
ChapterIndexes == 0..MaxChapter
TopKs == 0..MaxTopK
Queries == {"alpha"}
KnownModes == {"semantic", "keyword", "hybrid"}
Modes == KnownModes \cup {"fulltext"}

(***************************************************************************)
(* Rust values.                                                            *)
(***************************************************************************)
Ok(v) == [ok |-> TRUE, value |-> v]
Err(e) == [ok |-> FALSE, error |-> e]

(***************************************************************************)
(* Table chunks (schema.rs:99-109).  embedding is a nullable BLOB.         *)
(***************************************************************************)
NULL == "NULL"
BLOB == "BLOB"
NoRow == [absent |-> TRUE]
ChunkRow(book_id, chapter_index, embedding) ==
    [book_id |-> book_id, chapter_index |-> chapter_index, embedding |-> embedding]
ChunkRows == [book_id : BookIds, chapter_index : ChapterIndexes, embedding : {NULL, BLOB}]

(***************************************************************************)
(* commands/rag.rs                                                         *)
(***************************************************************************)
VectorizeStatus(book_id, total_chunks, processed_chunks, status) ==
    [book_id |-> book_id, total_chunks |-> total_chunks,
     processed_chunks |-> processed_chunks, status |-> status]

SearchResult(chunk_id, content, score, chapter_title) ==
    [chunk_id |-> chunk_id, content |-> content, score |-> score,
     chapter_title |-> chapter_title]

vectorize_book(book_id) == Err("Not implemented")

\* Variant: every chunk row of the book is returned in id order with the
\* same score, neither ranked nor cut to top_k.
search_book_untruncated(book_id, query, mode, top_k) ==
    LET OfBook(c) == chunks[c] # NoRow /\ chunks[c].book_id = book_id
        ids == SelectSeq([c \in ChunkIds |-> c], OfBook)
    IN  Ok([i \in 1..Len(ids) |-> SearchResult(ids[i], "", 0, "")])

\* Variant: the mode string is validated against the three known modes.
search_book_validating(book_id, query, mode, top_k) ==
    IF mode \in KnownModes THEN Ok(<< >>) ELSE Err("InvalidSearchMode")

\* Variant: a book without chunk rows is reported as an error.
search_book_strict(book_id, query, mode, top_k) ==
    IF \E c \in ChunkIds : chunks[c] # NoRow /\ chunks[c].book_id = book_id
    THEN Ok(<< >>)
    ELSE Err("DocumentUnreadable")

search_book(book_id, query, mode, top_k) == Ok(<< >>)

\* Variant: a vectorize_book call that returned an error is remembered and
\* reported as status "failed".
get_vectorize_status_failed(book_id) ==
    IF last.op = "vectorize_book" /\ last.book_id = book_id /\ ~last.result.ok
    THEN Ok(VectorizeStatus(book_id, 0, 0, "failed"))
    ELSE Ok(VectorizeStatus(book_id, 0, 0, "idle"))

\* Variant: the counts are read from table chunks.
get_vectorize_status_counting(book_id) ==
    LET total == Cardinality({c \in ChunkIds :
                     chunks[c] # NoRow /\ chunks[c].book_id = book_id})
        done == Cardinality({c \in ChunkIds :
                     chunks[c] # NoRow /\ chunks[c].book_id = book_id
                     /\ chunks[c].embedding # NULL})
    IN  Ok(VectorizeStatus(book_id, total, done,
                           IF total > 0 /\ done = total THEN "complete" ELSE "idle"))

get_vectorize_status(book_id) == Ok(VectorizeStatus(book_id, 0, 0, "idle"))

(***************************************************************************)
(* commands/book.rs                                                        *)
(***************************************************************************)
delete_book(book_id) == Err("Not implemented")

(***************************************************************************)
(* State after the first start of the process on a fresh data directory:   *)
(* initialize has created the tables, all empty.                           *)
(***************************************************************************)
Init ==
    /\ books = {}
    /\ chunks = [c \in ChunkIds |-> NoRow]
    /\ last = [op |-> "run"]

(***************************************************************************)
(* run(): a (re)start of the process.  initialize only executes CREATE     *)
(* TABLE / INDEX IF NOT EXISTS and two ALTER TABLE books ADD COLUMN whose  *)
(* failure is ignored, so existing rows are kept.  No command state        *)
(* survives or is created.                                                 *)
(***************************************************************************)
Run ==
    /\ last' = [op |-> "run"]
    /\ UNCHANGED <<books, chunks>>

(***************************************************************************)
(* Command invocations.                                                    *)
(***************************************************************************)
VectorizeBook ==
    \E b \in BookIds :
        /\ last' = [op |-> "vectorize_book", book_id |-> b, result |-> vectorize_book(b)]
        /\ UNCHANGED <<books, chunks>>

SearchBook ==
    \E b \in BookIds, q \in Queries, m \in Modes, k \in TopKs :
        /\ last' = [op |-> "search_book", book_id |-> b, query |-> q, mode |-> m,
                    top_k |-> k, result |-> search_book(b, q, m, k)]
        /\ UNCHANGED <<books, chunks>>

GetVectorizeStatus ==
    \E b \in BookIds :
        /\ last' = [op |-> "get_vectorize_status", book_id |-> b,
                    result |-> get_vectorize_status(b)]
        /\ UNCHANGED <<books, chunks>>

DeleteBook ==
    \E b \in BookIds :
        /\ last' = [op |-> "delete_book", book_id |-> b, result |-> delete_book(b)]
        /\ UNCHANGED <<books, chunks>>

(***************************************************************************)
(* SQL statements the frontend issues through the SQL plugin, as far as    *)
(* the schema admits them.  The REFERENCES clauses are taken as enforced   *)
(* (foreign_keys on for the connection), which is what makes ON DELETE     *)
(* CASCADE act.                                                            *)
(***************************************************************************)
\* INSERT INTO books: id is the PRIMARY KEY.
SqlInsertBook ==
    \E b \in BookIds :
        /\ b \notin books
        /\ books' = books \cup {b}
        /\ last' = [op |-> "sql"]
        /\ UNCHANGED chunks

\* INSERT INTO chunks: id is the PRIMARY KEY, book_id REFERENCES books(id),
\* embedding may be NULL.
SqlInsertChunk ==
    \E c \in ChunkIds, b \in BookIds, ch \in ChapterIndexes, e \in {NULL, BLOB} :
        /\ chunks[c] = NoRow
        /\ b \in books
        /\ chunks' = [chunks EXCEPT ![c] = ChunkRow(b, ch, e)]
        /\ last' = [op |-> "sql"]
        /\ UNCHANGED books

\* UPDATE chunks SET embedding = ? WHERE id = ?
SqlSetEmbedding ==
    \E c \in ChunkIds :
        /\ chunks[c] # NoRow
        /\ chunks[c].embedding = NULL
        /\ chunks' = [chunks EXCEPT ![c].embedding = BLOB]
        /\ last' = [op |-> "sql"]
        /\ UNCHANGED books

\* DELETE FROM books WHERE id = ?: ON DELETE CASCADE removes the book's chunks.
SqlDeleteBook ==
    \E b \in BookIds :
        /\ b \in books
        /\ books' = books \ {b}
        /\ chunks' = [c \in ChunkIds |->
                        IF chunks[c] # NoRow /\ chunks[c].book_id = b
                        THEN NoRow ELSE chunks[c]]
        /\ last' = [op |-> "sql"]

Next ==
    \/ Run
    \/ VectorizeBook
    \/ SearchBook
    \/ GetVectorizeStatus
    \/ DeleteBook
    \/ SqlInsertBook
    \/ SqlInsertChunk
    \/ SqlSetEmbedding
    \/ SqlDeleteBook

Spec == Init /\ [][Next]_vars

(***************************************************************************)
(* Sanity of the model.                                                    *)
(***************************************************************************)
TypeOK ==
    /\ books \subseteq BookIds
    /\ \A c \in ChunkIds : chunks[c] = NoRow \/ chunks[c] \in ChunkRows
    /\ last.op \in {"run", "sql", "vectorize_book", "search_book",
                    "get_vectorize_status", "delete_book"}

\* The foreign key of chunks.book_id: no chunk row without its book.
NoOrphanChunks ==
    \A c \in ChunkIds : chunks[c] # NoRow => chunks[c].book_id \in books

(***************************************************************************)
(* What the store holds for a book.                                        *)
(***************************************************************************)
ChunksOf(b) == {c \in ChunkIds : chunks[c] # NoRow /\ chunks[c].book_id = b}
TotalChunks(b) == Cardinality(ChunksOf(b))
EmbeddedChunks(b) == Cardinality({c \in ChunksOf(b) : chunks[c].embedding # NULL})

\* The status a status query reports for book b in the current state.
StatusOf(b) == get_vectorize_status(b).value.status

\* Position of a chunk in its book.  Table chunks has a chapter_index column
\* but no sequence_index column; the chunk id, the only other key of a row,
\* orders the chunks of one chapter.
PositionBefore(c1, c2) ==
    \/ chunks[c1].chapter_index < chunks[c2].chapter_index
    \/ /\ chunks[c1].chapter_index = chunks[c2].chapter_index
       /\ c1 < c2

C4_UnknownModeFails ==
    (last.op = "search_book" /\ last.mode \notin KnownModes) =>
        /\ ~last.result.ok
        /\ last.result.error = "InvalidSearchMode"

(***************************************************************************)
(* C4 amended: a search_book call whose mode is none of semantic, keyword, *)
(* hybrid succeeds with an empty result sequence, for every book and       *)
(* query.                                                                  *)
(***************************************************************************)
C4_UnknownModeReturnsEmpty ==
    (last.op = "search_book" /\ last.mode \notin KnownModes) =>
        last.result = Ok(<< >>)

\* A search with an unknown mode has returned, for a book that has chunks.
C4_Witness ==
    /\ last.op = "search_book"
    /\ last.mode \notin KnownModes
    /\ last.top_k >= 1
    /\ TotalChunks(last.book_id) > 0

(***************************************************************************)
(* C5: a search_book call for a book that has no chunk rows (never         *)
(* vectorized), or in mode semantic for a book none of whose chunks has an *)
(* embedding, returns Ok with the empty sequence.                          *)
(***************************************************************************)
C5_UnvectorizedSearchIsEmptyOk ==
    (/\ last.op = "search_book"
     /\ \/ TotalChunks(last.book_id) = 0
        \/ (last.mode = "semantic" /\ EmbeddedChunks(last.book_id) = 0)) =>
        /\ last.result.ok
        /\ last.result.value = << >>

\* A search for a book without any chunk row has returned.
C5_Witness ==
    /\ last.op = "search_book"
    /\ last.mode = "semantic"
    /\ last.top_k >= 1
    /\ last.book_id \in books
    /\ TotalChunks(last.book_id) = 0
    /\ last.result.ok

(***************************************************************************)
(* C6 as stated: a status query reports the chunk counts that are in the   *)
(* store: total 0, processed 0 and status idle for a book without chunks,  *)
(* the full counts and status complete for a book all of whose chunks are  *)
(* embedded.                                                               *)
(***************************************************************************)
C6_StatusReportsStore ==
    (last.op = "get_vectorize_status") =>
        LET b == last.book_id
            st == last.result.value
        IN  /\ last.result.ok
            /\ st.total_chunks = TotalChunks(b)
            /\ st.processed_chunks = EmbeddedChunks(b)
            /\ (TotalChunks(b) = 0 => st.status = "idle")
            /\ (TotalChunks(b) > 0 /\ EmbeddedChunks(b) = TotalChunks(b)
                    => st.status = "complete")

(***************************************************************************)
(* C8: the status reported for a book changes only along the edges         *)
(* idle -> chunking -> embedding -> complete, chunking/embedding ->        *)
(* failed, chunking/embedding -> cancelled, and the start of a new run     *)
(* from a state that is not active; failed and cancelled are never         *)
(* entered from idle or complete.                                          *)
(***************************************************************************)
ActiveStates == {"chunking", "embedding"}
InactiveStates == {"idle", "complete", "failed", "cancelled"}
Edges ==
    {<<"idle", "chunking">>, <<"chunking", "embedding">>, <<"embedding", "complete">>}
    \cup (ActiveStates \X {"failed", "cancelled"})
    \cup (InactiveStates \X ActiveStates)

C8_StatusFollowsEdges ==
    [][\A b \in BookIds :
         \/ StatusOf(b)' = StatusOf(b)
         \/ <<StatusOf(b), StatusOf(b)'>> \in Edges]_vars

\* A vectorize_book call has returned an error and the book's status is
\* idle, not failed.
C8_Witness ==
    /\ last.op = "vectorize_book"
    /\ ~last.result.ok
    /\ StatusOf(last.book_id) = "idle"

(***************************************************************************)
(* C10: the RAG commands hold no state: every vectorize_book call returns  *)
(* an error, and every get_vectorize_status call, whatever preceded it,    *)
(* returns the book id it was given with status idle, total_chunks 0 and   *)
(* processed_chunks 0.                                                     *)
(***************************************************************************)
C10_RagCommandsStateless ==
    /\ (last.op = "vectorize_book" => ~last.result.ok)
    /\ (last.op = "get_vectorize_status" =>
            last.result = Ok(VectorizeStatus(last.book_id, 0, 0, "idle")))
    /\ \A b \in BookIds :
            get_vectorize_status(b) = Ok(VectorizeStatus(b, 0, 0, "idle"))

\* A status query has returned for a book whose chunks are all in the store
\* with their embeddings.
C10_Witness ==
    /\ last.op = "get_vectorize_status"
    /\ TotalChunks(last.book_id) = NumChunks
    /\ EmbeddedChunks(last.book_id) = NumChunks
    /\ last.result.value.status = "idle"

====
